---- MODULE Spec2Model ----
(***************************************************************************)
(* A model of django-seeker's indexing core:                               *)
(*   - follow              (seeker/mapping.py)  relational path resolver   *)
(*   - Indexable.get_objects (seeker/mapping.py) cursor / batch enumeration *)
(*   - Indexable.clear     (seeker/mapping.py)  mapping removal            *)
(*   - register            (seeker/registry.py) process-wide registry      *)
(* Each component has its own specification (SpecFollow, SpecObjects,      *)
(* SpecClear, SpecRegistry); the variables of the other components stay    *)
(* at their idle values.                                                   *)
(***************************************************************************)
EXTENDS Integers, Sequences, FiniteSets, TLC

VARIABLES
    \* ---- follow: the relational world and the last call
    attrs,            \* attrs[o][n]: value of attribute n of model instance o
    disp,             \* disp[o]: the parts p for which o has a get_<p>_display method
    fcall,            \* arguments of the last follow call, or NoCall
    fresult,          \* what the last follow call returned
    \* ---- get_objects: the queryset and the generator's position
    selection,        \* primary keys of the records of cls.queryset()
    eligible,         \* the primary keys for which cls.should_index is true
    batch_size,       \* settings.SEEKER_BATCH_SIZE, or the default
    cursorOrder,      \* the order in which the server-side cursor streams
    gpc,              \* "idle", "cursor", "batch" or "done"
    cursorArg,        \* the cursor argument of the current get_objects call
    prev,             \* the previous finished enumeration: its mode and records
    total,            \* qs.count(), batch mode
    start,            \* loop variable of the batch loop; cursor position
    windows,          \* the [start, end) slices taken so far, batch mode
    yielded,          \* the records yielded so far
    \* ---- clear: the search engine and the last two calls
    es,               \* the <<connection, index, doc_type>> mappings that exist
    clearCall,        \* the last clear call: its target and the requests it issued
    prevClear,        \* the clear call before it
    \* ---- registry
    documents,        \* registry.documents
    model_documents,  \* registry.model_documents
    model_doc_types,  \* registry.model_doc_types
    app_documents,    \* registry.app_documents
    regResult,        \* how the last register call ended
    calls             \* every register call made so far, in order

followVars == <<attrs, disp, fcall, fresult>>
objectVars == <<selection, eligible, batch_size, cursorOrder, gpc, cursorArg, prev,
                total, start, windows, yielded>>

clearVars == <<es, clearCall, prevClear>>
registryVars == <<documents, model_documents, model_doc_types, app_documents,
                  regResult, calls>>

vars == <<followVars, objectVars, clearVars, registryVars>>

(***************************************************************************)
(* Bounds                                                                  *)
(***************************************************************************)
MaxPathLen == 4       \* longest path string handed to follow, in characters
MaxFanOut == 2        \* most related records behind one Manager
MaxPk == 4            \* largest primary key of the small querysets
MaxBatch == 3         \* largest configured SEEKER_BATCH_SIZE besides the default
LargeTotal == 2500    \* size of the one large queryset
MaxCalls == 3         \* most register calls in one run

(***************************************************************************)
(* Program constants                                                       *)
(***************************************************************************)
\* getattr(settings, 'SEEKER_BATCH_SIZE', 1000)
DefaultBatchSize == 1000

(***************************************************************************)
(* Python values.  Every value is a record of the same shape:              *)
(*   k      the kind: none, scalar, text, model, manager, list             *)
(*   v      the payload as a sequence of strings                           *)
(*   items  the elements of a list                                         *)
(***************************************************************************)
None == [k |-> "none", v |-> <<>>, items |-> <<>>]
Absent == [k |-> "absent", v |-> <<>>, items |-> <<>>]
Scalar(s) == [k |-> "scalar", v |-> <<s>>, items |-> <<>>]
ModelVal(o) == [k |-> "model", v |-> <<o>>, items |-> <<>>]
Manager(os) == [k |-> "manager", v |-> os, items |-> <<>>]
TextType(obj) == [k |-> "text", v |-> obj.v, items |-> <<>>]
List(xs) == [k |-> "list", v |-> <<>>, items |-> xs]

NoCall == [obj |-> "", path |-> <<"-">>]

\* The model instances: a root record and two related records.
Objs == {"r", "t1", "t2"}
Related == {"t1", "t2"}
\* Attribute names are strings, kept as sequences of characters.
Names == {<<"a">>, <<"b">>}
Chars == {"a", "b", "_"}

SeqsUpTo(S, n) == UNION {[1..m -> S] : m \in 0..n}
Paths == SeqsUpTo(Chars, MaxPathLen)
Managers == {Manager(os) : os \in SeqsUpTo(Related, MaxFanOut)}

(***************************************************************************)
(* str.split('__') and '__'.join                                           *)
(***************************************************************************)
SetMin(S) == CHOOSE x \in S : \A y \in S : x <= y

\* Index of the leftmost occurrence of the separator "__" in s, 0 when none.
FindSep(s) ==
    LET hits == {i \in 1..(Len(s) - 1) : s[i] = "_" /\ s[i + 1] = "_"}
    IN  IF hits = {} THEN 0 ELSE SetMin(hits)

RECURSIVE Split(_)
Split(s) ==
    LET j == FindSep(s)
    IN  IF j = 0 THEN <<s>>
        ELSE <<SubSeq(s, 1, j - 1)>> \o Split(SubSeq(s, j + 2, Len(s)))

\* parts = path.split('__') if path else []
Parts(path) == IF path = <<>> THEN <<>> ELSE Split(path)

RECURSIVE Join(_)
Join(parts) ==
    IF parts = <<>> THEN <<>>
    ELSE IF Len(parts) = 1 THEN parts[1]
    ELSE parts[1] \o <<"_", "_">> \o Join(Tail(parts))

(***************************************************************************)
(* follow                                                                  *)
(***************************************************************************)
\* hasattr(obj, 'get_%s_display' % part)
HasDisplay_never(obj, part) == FALSE
HasDisplay(obj, part) == obj.k = "model" /\ part \in disp[obj.v[1]]

\* getattr(obj, 'get_%s_display' % part)()
DisplayValue(obj, part) ==
    [k |-> "scalar", v |-> <<"display", obj.v[1]>> \o part, items |-> <<>>]

\* The object has an attribute of that name.
HasAttr(obj, part) ==
    obj.k = "model" /\ part \in Names /\ attrs[obj.v[1]][part] # Absent

\* getattr(obj, part, None)
GetAttr_self(obj, part) == IF HasAttr(obj, part) THEN attrs[obj.v[1]][part] ELSE obj
GetAttr(obj, part) == IF HasAttr(obj, part) THEN attrs[obj.v[1]][part] ELSE None

\* new_path = '__'.join(parts[idx + 1:]), parts being the parts from idx on
NewPath_keep(parts) == Join(parts)
NewPath(parts) == Join(Tail(parts))

\* One invocation of follow from the loop position whose remaining parts are
\* `parts` and whose current object is `obj`.
RECURSIVE followParts(_, _)
followParts(obj, parts) ==
    IF parts = <<>>
    THEN IF obj.k = "model" THEN TextType(obj) ELSE obj
    ELSE LET part == Head(parts) IN
         IF HasDisplay(obj, part)
         THEN DisplayValue(obj, part)
         ELSE LET nxt == GetAttr(obj, part) IN
              IF nxt.k = "manager"
              THEN List([i \in 1..Len(nxt.v) |->
                           followParts(ModelVal(nxt.v[i]), Parts(NewPath(parts)))])
              ELSE followParts(nxt, Tail(parts))

follow(obj, path) == followParts(obj, Parts(path))

(***************************************************************************)
(* The worlds follow is applied to                                         *)
(***************************************************************************)
Worlds ==
    {[o \in Objs |-> [n \in Names |->
        CASE o = "r" /\ n = <<"a">> -> ra
          [] o = "r" /\ n = <<"b">> -> Scalar("y")
          [] o = "t1" /\ n = <<"b">> -> t1b
          [] o = "t2" /\ n = <<"b">> -> t2b
          [] OTHER -> Absent]] :
        ra \in {Absent, Scalar("x"), ModelVal("t1")} \cup Managers,
        t1b \in {Absent, Scalar("x")},
        t2b \in {None, Scalar("y")}}

\* The get_<field>_display methods of the objects: Django gives one to a
\* model for each of its fields with choices, so only value fields have one.
Displays(world) ==
    {d \in [Objs -> SUBSET Names] :
        \A o \in Objs : \A n \in d[o] : world[o][n].k = "scalar"}

FollowIdle ==
    /\ attrs = [o \in Objs |-> [n \in Names |-> Absent]]
    /\ disp = [o \in Objs |-> {}]
    /\ fcall = NoCall
    /\ fresult = None

NoPrev == [mode |-> "none", yielded |-> <<>>]

ObjectsIdle ==
    /\ selection = {}
    /\ eligible = {}
    /\ batch_size = DefaultBatchSize
    /\ cursorOrder = <<>>
    /\ gpc = "idle"
    /\ cursorArg = FALSE
    /\ prev = NoPrev
    /\ total = 0
    /\ start = 0
    /\ windows = <<>>
    /\ yielded = <<>>

NoClear == [target |-> <<>>, ops |-> <<>>]

ClearIdle ==
    /\ es = {}
    /\ clearCall = NoClear
    /\ prevClear = NoClear

\* The module's globals as the import leaves them (registry.py:5-9).
RegistryStart ==
    /\ documents = <<>>
    /\ model_documents = <<>>
    /\ model_doc_types = <<>>
    /\ app_documents = <<>>

RegistryIdle ==
    /\ RegistryStart
    /\ regResult = "none"
    /\ calls = <<>>

InitFollow ==
    /\ ObjectsIdle /\ ClearIdle /\ RegistryIdle
    /\ attrs \in Worlds
    /\ disp \in Displays(attrs)
    /\ fcall = NoCall
    /\ fresult = None

Follow(o, path) ==
    /\ fcall = NoCall
    /\ fcall' = [obj |-> o, path |-> path]
    /\ fresult' = follow(ModelVal(o), path)
    /\ UNCHANGED <<attrs, disp>>
    /\ UNCHANGED <<objectVars, clearVars, registryVars>>

\* The caller takes the result; the next call may follow.
FollowReturn ==
    /\ fcall # NoCall
    /\ fcall' = NoCall
    /\ fresult' = None
    /\ UNCHANGED <<attrs, disp>>
    /\ UNCHANGED <<objectVars, clearVars, registryVars>>

NextFollow ==
    \/ \E o \in Objs, path \in Paths : Follow(o, path)
    \/ FollowReturn

(***************************************************************************)
(* Indexable.get_objects                                                   *)
(***************************************************************************)
Min(a, b) == IF a <= b THEN a ELSE b

\* qs.order_by('pk'): the primary keys in ascending order.
OrderByPk(S) ==
    LET InS(pk) == pk \in S
    IN  SelectSeq([pk \in 1..(MaxPk + LargeTotal) |-> pk], InS)

\* The orders in which an unordered queryset (order_by()) may be streamed.
Orders(S) ==
    {f \in [1..Cardinality(S) -> S] : \A i, j \in 1..Cardinality(S) : f[i] = f[j] => i = j}

\* qs.count()
Count(S) == Cardinality(S)

\* end = min(start + batch_size, total)
WindowEnd_nomin(st, bs, tot) == st + bs
WindowEnd(st, bs, tot) == Min(st + bs, tot)

\* qs.all()[start:end] on a queryset ordered by pk
Slice_inclusive(S, st, en) ==
    LET q == OrderByPk(S) IN SubSeq(q, Min(st, Len(q)) + 1, Min(en + 1, Len(q)))
Slice(S, st, en) ==
    LET q == OrderByPk(S) IN SubSeq(q, Min(st, Len(q)) + 1, Min(en, Len(q)))

\* cls.should_index(obj)
ShouldIndex(pk) == pk \in eligible

\* for obj in ...: if cls.should_index(obj): yield obj
Filtered(objs) == SelectSeq(objs, ShouldIndex)

InitObjects ==
    /\ FollowIdle /\ ClearIdle /\ RegistryIdle
    /\ \/ /\ selection \in SUBSET (1..MaxPk)
          /\ eligible \in SUBSET (1..MaxPk)
          /\ batch_size \in (1..MaxBatch) \cup {DefaultBatchSize}
          /\ cursorOrder \in Orders(selection)
       \/ /\ selection = 1..LargeTotal
          /\ eligible = {pk \in selection : pk % 2 = 1}
          /\ batch_size = DefaultBatchSize
          /\ cursorOrder = [i \in 1..LargeTotal |-> LargeTotal + 1 - i]
    /\ gpc = "idle"
    /\ cursorArg = FALSE
    /\ prev = NoPrev
    /\ total = 0
    /\ start = 0
    /\ windows = <<>>
    /\ yielded = <<>>

\* get_objects(cursor): the generator is created and started.
GetObjects(cursor) ==
    /\ gpc \in {"idle", "done"}
    /\ gpc' = IF cursor THEN "cursor" ELSE "batch"
    /\ cursorArg' = cursor
    /\ prev' = IF gpc = "done"
               THEN [mode |-> IF cursorArg THEN "cursor" ELSE "batch", yielded |-> yielded]
               ELSE prev
    /\ total' = IF cursor THEN 0 ELSE Count(selection)
    /\ start' = 0
    /\ windows' = <<>>
    /\ yielded' = <<>>
    /\ UNCHANGED <<selection, eligible, batch_size, cursorOrder>>
    /\ UNCHANGED <<followVars, clearVars, registryVars>>

\* for obj in qs.iterator(): one record of the cursor
CursorStep ==
    /\ gpc = "cursor"
    /\ start < Len(cursorOrder)
    /\ start' = start + 1
    /\ yielded' = yielded \o Filtered(<<cursorOrder[start + 1]>>)
    /\ UNCHANGED <<selection, eligible, batch_size, cursorOrder, gpc, cursorArg, prev,
                   total, windows>>
    /\ UNCHANGED <<followVars, clearVars, registryVars>>

CursorDone ==
    /\ gpc = "cursor"
    /\ start >= Len(cursorOrder)
    /\ gpc' = "done"
    /\ UNCHANGED <<selection, eligible, batch_size, cursorOrder, cursorArg, prev,
                   total, start, windows, yielded>>
    /\ UNCHANGED <<followVars, clearVars, registryVars>>

\* for start in range(0, total, batch_size): one window
BatchStep ==
    /\ gpc = "batch"
    /\ start < total
    /\ LET end == WindowEnd(start, batch_size, total) IN
           /\ windows' = Append(windows, <<start, end>>)
           /\ yielded' = yielded \o Filtered(Slice(selection, start, end))
    /\ start' = start + batch_size
    /\ UNCHANGED <<selection, eligible, batch_size, cursorOrder, gpc, cursorArg, prev,
                   total>>
    /\ UNCHANGED <<followVars, clearVars, registryVars>>

BatchDone ==
    /\ gpc = "batch"
    /\ start >= total
    /\ gpc' = "done"
    /\ UNCHANGED <<selection, eligible, batch_size, cursorOrder, cursorArg, prev,
                   total, start, windows, yielded>>
    /\ UNCHANGED <<followVars, clearVars, registryVars>>

NextObjects ==
    \/ \E cursor \in BOOLEAN : GetObjects(cursor)
    \/ CursorStep
    \/ CursorDone
    \/ BatchStep
    \/ BatchDone

(***************************************************************************)
(* Indexable.clear                                                         *)
(***************************************************************************)
Conns == {"default", "other"}
Indices == {"seeker", "alt"}
\* The document classes clear is called on: cls._doc_type.name, .index, .using
ClearDocs == {"ArticleDoc", "TagDoc"}
DocTypeOf(cls) ==
    IF cls = "ArticleDoc"
    THEN [name |-> "article", index |-> "seeker", using |-> "default"]
    ELSE [name |-> "tag", index |-> "alt", using |-> "default"]
Targets == Conns \X Indices \X {DocTypeOf(cls).name : cls \in ClearDocs}

\* es.indices.exists_type(index=index, doc_type=name)
ExistsType_always(conn, index, name) == TRUE
ExistsType(conn, index, name) == <<conn, index, name>> \in es

\* es.indices.delete_mapping(index=index, doc_type=name)
DeleteMapping(conn, index, name) == es \ {<<conn, index, name>>}

InitClear ==
    /\ FollowIdle /\ ObjectsIdle /\ RegistryIdle
    /\ es \in SUBSET Targets
    /\ clearCall = NoClear
    /\ prevClear = NoClear

\* cls.clear(using=using, index=index); "None" stands for an omitted argument.
Clear(cls, using, index) ==
    LET idx == IF index = "None" THEN DocTypeOf(cls).index ELSE index
        conn == IF using = "None" THEN DocTypeOf(cls).using ELSE using
        name == DocTypeOf(cls).name
    IN  /\ prevClear' = clearCall
        /\ IF ExistsType(conn, idx, name)
           THEN /\ es' = DeleteMapping(conn, idx, name)
                /\ clearCall' = [target |-> <<conn, idx, name>>,
                                 ops |-> <<<<"delete_mapping", conn, idx, name>>,
                                           <<"flush", conn, idx>>>>]
           ELSE /\ es' = es
                /\ clearCall' = [target |-> <<conn, idx, name>>, ops |-> <<>>]
        /\ UNCHANGED <<followVars, objectVars, registryVars>>

NextClear ==
    \E cls \in ClearDocs, using \in Conns \cup {"None"}, index \in Indices \cup {"None"} :
        Clear(cls, using, index)

(***************************************************************************)
(* register                                                                *)
(***************************************************************************)
\* The classes handed to register.
DocClasses == {"D1", "D2", "D3", "D4", "X"}
\* issubclass(doc_class, Indexable)
IsIndexable(doc) == doc # "X"
\* doc_class.queryset().model: the entity type behind the mapping
QuerysetModel(doc) ==
    CASE doc \in {"D1", "D3"} -> "M1"
      [] doc = "D2" -> "M2"
      [] OTHER -> "NoModel"
\* doc_class._doc_type.name
DocTypeName(doc) == IF doc = "D3" THEN "n2" ELSE "n1"
\* issubclass(doc_class, ModelIndex): the mapping has a backing entity type
IsModelIndex(doc) == QuerysetModel(doc) # "NoModel"

\* The app arguments: none, an installed AppConfig, an AppConfig that is not
\* installed, an object that is no AppConfig.
AppArgs == {"None", "A", "B", "O"}
IsAppConfig(app) == app \in {"A", "B"}
IsInstalled(app) == app = "A"
AppLabel(app) == "a"
\* What current_app.label gives: a label, or "NoLabel" when the thread-local
\* has no such attribute.
Contexts == {"NoLabel", "ctx"}

\* assert isinstance(app, AppConfig) and apps.is_installed(app.name)
AppValid_noinstall(app) == IsAppConfig(app)
AppValid(app) == IsAppConfig(app) /\ IsInstalled(app)

\* doc_class in documents
AlreadyRegistered_never(doc) == FALSE
AlreadyRegistered(doc) == \E i \in 1..Len(documents) : documents[i] = doc

\* d.setdefault(key, []).append(x)
SetDefaultAppend_overwrite(d, key, x) ==
    [k \in DOMAIN d \cup {key} |-> IF k = key THEN <<x>> ELSE d[k]]
SetDefaultAppend(d, key, x) ==
    [k \in DOMAIN d \cup {key} |->
        IF k = key THEN (IF key \in DOMAIN d THEN Append(d[key], x) ELSE <<x>>)
        ELSE d[k]]

\* d[key] = value
SetItem_keep(d, key, value) ==
    [k \in DOMAIN d \cup {key} |-> IF k \in DOMAIN d THEN d[k] ELSE value]
SetItem(d, key, value) ==
    [k \in DOMAIN d \cup {key} |-> IF k = key THEN value ELSE d[k]]

InitRegistry ==
    /\ FollowIdle /\ ObjectsIdle /\ ClearIdle
    /\ RegistryStart
    /\ regResult = "none"
    /\ calls = <<>>

\* register(doc_class, app) on a thread whose current_app has label ctx.
Register(doc, app, ctx) ==
    /\ Len(calls) < MaxCalls
    /\ calls' = Append(calls, [doc |-> doc, app |-> app])
    /\ IF ~IsIndexable(doc) \/ (app # "None" /\ ~AppValid(app))
       THEN /\ regResult' = "AssertionError"
            /\ UNCHANGED <<documents, model_documents, model_doc_types, app_documents>>
       ELSE IF AlreadyRegistered(doc)
       THEN /\ regResult' = "ok"
            /\ UNCHANGED <<documents, model_documents, model_doc_types, app_documents>>
       ELSE /\ regResult' = "ok"
            /\ documents' = Append(documents, doc)
            /\ IF IsModelIndex(doc)
               THEN /\ model_documents' =
                          SetDefaultAppend(model_documents, QuerysetModel(doc), doc)
                    /\ model_doc_types' =
                          SetItem(model_doc_types, DocTypeName(doc), QuerysetModel(doc))
               ELSE UNCHANGED <<model_documents, model_doc_types>>
            /\ LET label == IF app # "None" THEN AppLabel(app) ELSE ctx IN
                   IF label = "NoLabel"
                   THEN UNCHANGED app_documents
                   ELSE app_documents' = SetDefaultAppend(app_documents, label, doc)
    /\ UNCHANGED <<followVars, objectVars, clearVars>>

NextRegistry ==
    \E doc \in DocClasses, app \in AppArgs, ctx \in Contexts : Register(doc, app, ctx)

(***************************************************************************)
(* Specifications                                                          *)
(***************************************************************************)
SpecFollow == InitFollow /\ [][NextFollow]_vars

SpecObjects == InitObjects /\ [][NextObjects]_vars

SpecClear == InitClear /\ [][NextClear]_vars

SpecRegistry == InitRegistry /\ [][NextRegistry]_vars

(***************************************************************************)
(* Properties of follow                                                    *)
(***************************************************************************)
Called == fcall # NoCall
CallObj == ModelVal(fcall.obj)
CallParts == Parts(fcall.path)

\* The call is follow(record, 'a__b') with a a Manager of the record and b a
\* scalar field of every related record.
FanOutCase(a, b) ==
    /\ Called
    /\ fcall.path = a \o <<"_", "_">> \o b
    /\ attrs[fcall.obj][a].k = "manager"
    /\ \A i \in 1..Len(attrs[fcall.obj][a].v) :
           attrs[attrs[fcall.obj][a].v[i]][b].k = "scalar"

RelatedOf(a) == attrs[fcall.obj][a].v

\* C5 as stated: follow(record, 'a__b') over a to-many relation a with k
\* related records returns the list of the k values of field b, in the
\* relation's iteration order.
C5_FanOutFieldValues ==
    \A a \in Names, b \in Names :
        FanOutCase(a, b) =>
            fresult = List([i \in 1..Len(RelatedOf(a)) |-> attrs[RelatedOf(a)[i]][b]])

\* C5 amended: when the record has no get_a_display method, the result is a
\* list of exactly k values in the relation's iteration order, the i-th being
\* the result of the i-th related record's get_b_display method when it has
\* one and its field b otherwise.
C5_FanOutShape ==
    \A a \in Names, b \in Names :
        FanOutCase(a, b) /\ a \notin disp[fcall.obj] =>
            fresult = List([i \in 1..Len(RelatedOf(a)) |->
                              IF b \in disp[RelatedOf(a)[i]]
                              THEN DisplayValue(ModelVal(RelatedOf(a)[i]), b)
                              ELSE attrs[RelatedOf(a)[i]][b]])

C5_Witness ==
    /\ FanOutCase(<<"a">>, <<"b">>)
    /\ <<"a">> \notin disp[fcall.obj]
    /\ RelatedOf(<<"a">>) = <<"t2", "t1">>
    /\ fresult = List(<<Scalar("y"), Scalar("x")>>)

\* The object is a model instance with a get_<part>_display method.
Exposes(obj, part) == obj.k = "model" /\ part \in disp[obj.v[1]]

\* The current object has no attribute of that name and no display method for it.
Lacks(obj, part) ==
    /\ ~Exposes(obj, part)
    /\ \/ obj.k # "model"
       \/ part \notin Names
       \/ attrs[obj.v[1]][part] = Absent

\* Somewhere in the resolution of parts from obj, fan-out branches included,
\* a segment names an attribute the current object lacks.
RECURSIVE MissSomewhere(_, _)
MissSomewhere(obj, parts) ==
    IF parts = <<>> \/ Exposes(obj, Head(parts)) THEN FALSE
    ELSE IF Lacks(obj, Head(parts)) THEN TRUE
    ELSE LET nxt == attrs[obj.v[1]][Head(parts)] IN
         IF nxt.k = "manager"
         THEN \E i \in 1..Len(nxt.v) :
                  MissSomewhere(ModelVal(nxt.v[i]), Parts(Join(Tail(parts))))
         ELSE MissSomewhere(nxt, Tail(parts))

\* res is null wherever the resolution of parts from obj meets a missing
\* attribute: the result itself when no to-many relation was crossed before,
\* the element of the related record in the returned list otherwise.
RECURSIVE NullWhereMissing(_, _, _)
NullWhereMissing(obj, parts, res) ==
    IF parts = <<>> \/ Exposes(obj, Head(parts)) THEN TRUE
    ELSE IF Lacks(obj, Head(parts)) THEN res = None
    ELSE LET nxt == attrs[obj.v[1]][Head(parts)] IN
         IF nxt.k = "manager"
         THEN /\ res.k = "list"
              /\ Len(res.items) = Len(nxt.v)
              /\ \A i \in 1..Len(nxt.v) :
                     NullWhereMissing(ModelVal(nxt.v[i]), Parts(Join(Tail(parts))),
                                      res.items[i])
         ELSE NullWhereMissing(nxt, Tail(parts), res)

\* C6 as stated: for every record and path, if some segment names an
\* attribute the current object lacks, follow returns null.
C6_MissingReturnsNull ==
    Called /\ MissSomewhere(CallObj, CallParts) => fresult = None

\* C6 amended: a missing attribute resolves to null whatever segments follow:
\* follow returns null when no to-many relation was crossed before the missing
\* segment, and otherwise the list returned for the relation holds null at the
\* position of every related record on which the segment is missing.
C6_MissingResilience ==
    Called => NullWhereMissing(CallObj, CallParts, fresult)

C6_Witness ==
    /\ Called
    /\ fcall.obj = "r"
    /\ Len(CallParts) = 2
    /\ Lacks(CallObj, CallParts[1])
    /\ CallParts[2] \in Names
    /\ fresult = None

\* C7: when the object has a display method for the first segment s, follow
\* returns that method's result, whatever the rest of the path:
\* follow(record, 's__anything') = follow(record, 's').
C7_DisplayTermination ==
    Called /\ CallParts # <<>> /\ Exposes(CallObj, CallParts[1]) =>
        /\ fresult = DisplayValue(CallObj, CallParts[1])
        /\ fresult = follow(CallObj, CallParts[1])

C7_Witness ==
    /\ Called
    /\ fcall.obj = "r"
    /\ CallParts = <<<<"b">>, <<"a">>>>
    /\ Exposes(CallObj, <<"b">>)
    /\ attrs["r"][<<"a">>].k = "manager"
    /\ fresult = DisplayValue(CallObj, <<"b">>)
    /\ fresult # attrs["r"][<<"b">>]

(***************************************************************************)
(* Properties of get_objects                                               *)
(***************************************************************************)
Range(q) == {q[i] : i \in 1..Len(q)}
Ascending(q) == \A i \in 1..(Len(q) - 1) : q[i] < q[i + 1]
Window(w) == w[1]..(w[2] - 1)

\* C1: the [start, end) windows of a finished batch-mode enumeration of T
\* records with batch size B are pairwise disjoint, cover exactly [0, T),
\* number ceil(T/B), and the last has length T mod B, or B when B divides T.
C1_WindowingCompleteness ==
    gpc = "done" /\ ~cursorArg =>
        LET T == Cardinality(selection)
            B == batch_size
            n == Len(windows)
        IN  /\ \A i \in 1..n : windows[i][1] < windows[i][2]
            /\ \A i, j \in 1..n : i # j => Window(windows[i]) \cap Window(windows[j]) = {}
            /\ UNION {Window(windows[i]) : i \in 1..n} = 0..(T - 1)
            /\ \A i \in 1..n : windows[i][1] = (i - 1) * B
            /\ n = (T + B - 1) \div B
            /\ n > 0 => windows[n][2] = T
            /\ n > 0 => windows[n][2] - windows[n][1] = (IF T % B = 0 THEN B ELSE T % B)

C1_Witness ==
    /\ gpc = "done"
    /\ ~cursorArg
    /\ Cardinality(selection) = 2500
    /\ batch_size = 1000
    /\ windows = <<<<0, 1000>>, <<1000, 2000>>, <<2000, 2500>>>>

\* C2: a finished enumeration, in either mode, has yielded every eligible
\* record of the selection exactly once and no other record (batch mode in
\* ascending primary-key order), so no more than count() records; a cursor
\* enumeration and a batch enumeration of the same selection yield the same
\* records.
C2_ModesEquivalent ==
    gpc = "done" =>
        /\ Range(yielded) = selection \cap eligible
        /\ Len(yielded) = Cardinality(selection \cap eligible)
        /\ Len(yielded) <= Count(selection)
        /\ ~cursorArg => Ascending(yielded)
        /\ prev.mode # "none" =>
               /\ Range(prev.yielded) = Range(yielded)
               /\ Len(prev.yielded) = Len(yielded)

C2_Witness ==
    /\ gpc = "done"
    /\ ~cursorArg
    /\ prev.mode = "cursor"
    /\ Len(yielded) = 2
    /\ Len(yielded) < Count(selection)
    /\ prev.yielded # yielded
    /\ batch_size = 2
    /\ Len(yielded) < Len(windows) * batch_size

(***************************************************************************)
(* Properties of clear                                                     *)
(***************************************************************************)
\* A step is a clear call on target t.
ClearStepOn(t) == prevClear' = clearCall /\ clearCall'.target = t

\* C8: clear on an absent document type issues no delete and no flush and
\* leaves the index as it is; on a present type it deletes the mapping and
\* flushes; after a clear the type is absent; a second clear in a row ends in
\* the state the first one left.
C8_ClearIdempotent ==
    [][\A t \in Targets :
          ClearStepOn(t) =>
              /\ t \notin es => clearCall'.ops = <<>> /\ es' = es
              /\ t \in es =>
                     /\ clearCall'.ops = <<<<"delete_mapping", t[1], t[2], t[3]>>,
                                           <<"flush", t[1], t[2]>>>>
                     /\ es' = es \ {t}
              /\ t \notin es'
              /\ clearCall.target = t => es' = es /\ clearCall'.ops = <<>>]_vars

C8_Witness ==
    /\ prevClear.target = clearCall.target
    /\ Len(prevClear.ops) = 2
    /\ clearCall.ops = <<>>
    /\ clearCall.target \notin es
    /\ es # {}

(***************************************************************************)
(* Properties of register                                                  *)
(***************************************************************************)
Tables == <<documents, model_documents, model_doc_types, app_documents>>
Models == {"M1", "M2"}
TypeNames == {"n1", "n2"}
BackingModel(doc) ==
    CASE doc \in {"D1", "D3"} -> "M1"
      [] doc = "D2" -> "M2"
      [] OTHER -> "NoModel"
IndexableClasses == {"D1", "D2", "D3", "D4"}
InstalledAppConfigs == {"A"}

\* The call is one the registry accepts.
Accepted(c) ==
    c.doc \in IndexableClasses /\ (c.app = "None" \/ c.app \in InstalledAppConfigs)

\* The step is a register call with arguments c.
RegisterStep(c) == calls' = Append(calls, c)

Occurs(x, q) == \E i \in 1..Len(q) : q[i] = x

\* The mappings in the order of their first accepted register call.
RECURSIVE FirstRegistrations(_)
FirstRegistrations(cs) ==
    IF cs = <<>> THEN <<>>
    ELSE LET before == FirstRegistrations(SubSeq(cs, 1, Len(cs) - 1))
             c == cs[Len(cs)]
         IN  IF Accepted(c) /\ ~Occurs(c.doc, before) THEN Append(before, c.doc)
             ELSE before

\* C3: register with a mapping already in documents changes none of the
\* four tables.
C3_RegisterIdempotent ==
    [][\A c \in [doc : DocClasses, app : AppArgs] :
          RegisterStep(c) /\ Occurs(c.doc, documents) =>
              /\ Len(documents') = Len(documents)
              /\ Tables' = Tables]_vars

C3_Witness ==
    /\ Len(calls) = 3
    /\ regResult = "ok"
    /\ calls[3].doc = calls[1].doc
    /\ Accepted(calls[1]) /\ Accepted(calls[2]) /\ Accepted(calls[3])
    /\ calls[3].app # calls[1].app
    /\ Len(documents) = 2

ModelList(M) == IF M \in DOMAIN model_documents THEN model_documents[M] ELSE <<>>

\* C9: for every entity type M, model_documents[M] holds exactly the mappings
\* of documents backed by M, once each, in the order of their first
\* registration; a mapping without entity type is in documents and in no list.
C9_ModelDocumentsOrder ==
    LET regs == FirstRegistrations(calls)
        BackedBy(M) == LET Is(d) == BackingModel(d) = M IN SelectSeq(regs, Is)
    IN  /\ documents = regs
        /\ \A M \in Models : ModelList(M) = BackedBy(M)
        /\ DOMAIN model_documents = {M \in Models : BackedBy(M) # <<>>}

C9_Witness ==
    /\ Len(calls) = 3
    /\ documents = <<"D3", "D4", "D1">>
    /\ model_documents["M1"] = <<"D3", "D1">>
    /\ "M2" \notin DOMAIN model_documents

\* C10: model_doc_types[name] is the entity type of the mapping registered
\* last among the entity-backed mappings named name; a name no registered
\* entity-backed mapping uses has no entry.
C10_LastRegistrationWins ==
    LET regs == FirstRegistrations(calls) IN
    \A name \in TypeNames :
        LET Named(d) == BackingModel(d) # "NoModel" /\ DocTypeName(d) = name
            named == SelectSeq(regs, Named)
        IN  IF named = <<>> THEN name \notin DOMAIN model_doc_types
            ELSE /\ name \in DOMAIN model_doc_types
                 /\ model_doc_types[name] = BackingModel(named[Len(named)])

C10_Witness ==
    /\ Len(calls) = 3
    /\ calls[1].doc = "D1" /\ calls[2].doc = "D2" /\ calls[3].doc = "D1"
    /\ documents = <<"D1", "D2">>
    /\ model_doc_types["n1"] = "M2"
    /\ "n2" \notin DOMAIN model_doc_types

====
